---- MODULE Spec2Model ----
(***************************************************************************)
(* Interface description and dispatch of mlem/runtime/interface/base.py:   *)
(* the declared interface (SimpleInterface), the model-derived interface   *)
(* (ModelInterface), argument validation, execution and the descriptor.    *)
(*                                                                         *)
(* Python values are encoded as follows.                                   *)
(*   - an insertion-ordered dict is a sequence of [key, val] entries;      *)
(*   - an optional value is a sequence of length 0 (absent) or 1;          *)
(*   - a raised exception is the name of its class in the field exc of an  *)
(*     outcome record, "none" meaning a normal return.                     *)
(***************************************************************************)
EXTENDS Integers, Sequences, FiniteSets, TLC

\* ------------------------------------------------------------------------
\* Bounds and inputs
\* ------------------------------------------------------------------------

\* payloads a caller sends are 1..MaxVal
MaxVal == 2

\* keys a caller may put in the args mapping ("extra" is declared nowhere)
ArgKeys == {"arg1", "b", "extra"}

\* the value sent under key k: it tells the key it was sent under, so that
\* a value bound to the wrong parameter shows
Value(k, payload) == [sent_as |-> k, payload |-> payload]

\* the args mappings a caller sends: any subset of ArgKeys
ArgMaps ==
    {[k \in S |-> Value(k, payload)] : S \in SUBSET ArgKeys, payload \in 1..MaxVal}

\* method names a caller may ask for
MethodNames == {"method1", "method2", "predict", "info", "doesNotExist"}

\* mlem.__version__
Version == "0.1.1"

\* ------------------------------------------------------------------------
\* Ordered dicts
\* ------------------------------------------------------------------------

Keys(d) == [i \in 1..Len(d) |-> d[i].key]

KeySet(d) == {d[i].key : i \in 1..Len(d)}

Has(d, k) == k \in KeySet(d)

Get(d, k) == d[CHOOSE i \in 1..Len(d) : d[i].key = k].val

Range(s) == {s[i] : i \in 1..Len(s)}

\* ------------------------------------------------------------------------
\* mlem.core.model: Argument, Signature; InterfaceDescriptor
\* ------------------------------------------------------------------------

Argument(key, type) == [key |-> key, type |-> type]

Signature(name, args, returns) ==
    [name |-> name, args |-> args, returns |-> returns]

InterfaceDescriptor(version, methods) ==
    [version |-> version, methods |-> methods]

\* ------------------------------------------------------------------------
\* Declared classes: the attributes dir(self) lists, in dir()'s sorted
\* order.  args is inspect.getfullargspec(attr).args of the bound method
\* (receiver first), annotations is attr.__annotations__.
\* ------------------------------------------------------------------------

Attr(name, is_exposed, args, annotations) ==
    [name |-> name, is_exposed |-> is_exposed, args |-> args,
     annotations |-> annotations]

\* f.is_exposed = True
expose(f) == [f EXCEPT !.is_exposed = TRUE]

NoAnnotations == [x \in {} |-> "Any"]

Inherited_execute ==
    Attr("execute", FALSE, <<"self", "method", "args">>,
         [method |-> "str", args |-> "Dict"])

Inherited_load == Attr("load", FALSE, <<"self", "uri">>, [uri |-> "str"])

\* the interface of tests/runtime/test_interface.py
MyInterface ==
    << Inherited_execute,
       Inherited_load,
       expose(Attr("method1", FALSE, <<"self", "arg1">>,
                   [arg1 |-> "Container5", return |-> "Container5"])),
       Attr("method2", FALSE, <<"self">>, NoAnnotations) >>

\* a service with a two-argument method, a zero-argument method without a
\* declared return type, and an unexposed helper
Service ==
    << Inherited_execute,
       expose(Attr("info", FALSE, <<"self">>, NoAnnotations)),
       Inherited_load,
       Attr("method2", FALSE, <<"self", "b">>, [b |-> "Int"]),
       expose(Attr("predict", FALSE, <<"self", "arg1", "b">>,
                   [arg1 |-> "Int", b |-> "Container5", return |-> "Int"])) >>

\* a class with an exposed method whose parameter has no annotation
Unannotated ==
    << Inherited_execute,
       Inherited_load,
       expose(Attr("predict", FALSE, <<"self", "b">>, NoAnnotations)) >>

Classes == {MyInterface, Service, Unannotated}

\* ------------------------------------------------------------------------
\* Model handles (meta.model): methods is the handle's declared table
\* ------------------------------------------------------------------------

ModelType(methods, loaded) == [methods |-> methods, loaded |-> loaded]

MethodsA ==
    << [key |-> "predict",
        val |-> Signature("predict", <<Argument("arg1", "Container5")>>,
                          <<"Container5">>)] >>

\* declared order is not alphabetical; "predict" is served by the native
\* method "_predict"
MethodsB ==
    << [key |-> "predict",
        val |-> Signature("_predict",
                          <<Argument("b", "Int"), Argument("arg1", "Int")>>,
                          <<"Int">>)],
       [key |-> "method1",
        val |-> Signature("method1", <<Argument("arg1", "Int")>>, <<"Int">>)],
       [key |-> "info", val |-> Signature("info", <<>>, <<>>)] >>

\* locators a caller may pass to load
Uris == {"missing", "dataset", "modelA", "modelB", "brokenA", "brokenB"}

\* load_meta(uri): the stored object, or a failure to resolve the locator.
\* artifacts tells whether meta.model.load(meta.fs, uri) will succeed.
load_meta(uri) ==
    CASE uri = "modelA" ->
           [exc |-> "none", class |-> "ModelMeta",
            model |-> ModelType(MethodsA, FALSE), artifacts |-> TRUE]
      [] uri = "modelB" ->
           [exc |-> "none", class |-> "ModelMeta",
            model |-> ModelType(MethodsB, FALSE), artifacts |-> TRUE]
      [] uri = "brokenA" ->
           [exc |-> "none", class |-> "ModelMeta",
            model |-> ModelType(MethodsA, FALSE), artifacts |-> FALSE]
      [] uri = "brokenB" ->
           [exc |-> "none", class |-> "ModelMeta",
            model |-> ModelType(MethodsB, FALSE), artifacts |-> FALSE]
      [] uri = "dataset" ->
           [exc |-> "none", class |-> "DatasetMeta",
            model |-> ModelType(<<>>, FALSE), artifacts |-> FALSE]
      [] OTHER ->
           [exc |-> "FileNotFoundError", class |-> "",
            model |-> ModelType(<<>>, FALSE), artifacts |-> FALSE]

\* ------------------------------------------------------------------------
\* Outcomes of the operations
\* ------------------------------------------------------------------------

\* a normal return carrying nothing; each operation fills the fields it
\* produces.  invoked counts the calls of the underlying callable, bound is
\* the positional argument list it received.
NoOutcome ==
    [exc |-> "none", names |-> <<>>, sig |-> <<>>, desc |-> <<>>,
     callable |-> "", value |-> <<>>, missing |-> <<>>, invoked |-> 0,
     bound |-> <<>>, error_method |-> "", cause |-> ""]

Raise(exc) == [NoOutcome EXCEPT !.exc = exc]

\* class ExecutionError(MlemError), raised with the message
\* "{self} method {method} missing args {', '.join(missing_args)}"
ExecutionError(method, missing_args) ==
    [NoOutcome EXCEPT !.exc = "ExecutionError", !.error_method = method,
                      !.missing = missing_args]

\* the exception class a failing host callable raises
HostException == "RuntimeError"

\* ------------------------------------------------------------------------
\* SimpleInterface
\* ------------------------------------------------------------------------

Interface(type, cls, methods, model) ==
    [type |-> type, cls |-> cls, methods |-> methods, model |-> model]

\* variant: every attribute counts as exposed
Exposed_all(cls) == cls

Exposed(cls) == SelectSeq(cls, LAMBDA attr : attr.is_exposed)

\* attr.__annotations__[a] for a in getfullargspec(attr).args[1:]
Annotated(attr) ==
    \A i \in 2..Len(attr.args) : attr.args[i] \in DOMAIN attr.annotations

SignatureOf(attr) ==
    Signature(attr.name,
              [i \in 1..(Len(attr.args) - 1) |->
                  Argument(attr.args[i + 1],
                           attr.annotations[attr.args[i + 1]])],
              IF "return" \in DOMAIN attr.annotations
                THEN <<attr.annotations["return"]>>
                ELSE <<>>)

\* SimpleInterface.__init__: exc is "KeyError" when an exposed method has a
\* parameter without annotation, and then no instance exists
SimpleInterface_init(cls) ==
    IF \E i \in 1..Len(Exposed(cls)) : ~Annotated(Exposed(cls)[i])
      THEN [exc |-> "KeyError", self |-> Interface("simple", cls, <<>>, <<>>)]
      ELSE [exc |-> "none",
            self |-> Interface("simple", cls,
                       [i \in 1..Len(Exposed(cls)) |->
                           [key |-> Exposed(cls)[i].name,
                            val |-> SignatureOf(Exposed(cls)[i])]],
                       <<>>)]

HasAttr(cls, name) == \E i \in 1..Len(cls) : cls[i].name = name

GetAttr(cls, name) == cls[CHOOSE i \in 1..Len(cls) : cls[i].name = name]

\* return getattr(self, method_name)
SimpleInterface_get_method_executor(self, method_name) ==
    IF HasAttr(self.cls, method_name)
      THEN [NoOutcome EXCEPT !.callable = method_name]
      ELSE Raise("AttributeError")

\* return list(self.methods.methods.keys())
SimpleInterface_get_method_names(self) ==
    [NoOutcome EXCEPT !.names = Keys(self.methods)]

\* variant: a name absent from the table is looked up among the attributes
SimpleInterface_get_method_signature_attr(self, method_name) ==
    IF Has(self.methods, method_name)
      THEN [NoOutcome EXCEPT !.sig = <<Get(self.methods, method_name)>>]
    ELSE IF HasAttr(self.cls, method_name) /\ Annotated(GetAttr(self.cls, method_name))
      THEN [NoOutcome EXCEPT !.sig = <<SignatureOf(GetAttr(self.cls, method_name))>>]
      ELSE Raise("KeyError")

\* return self.methods.methods[method_name]
SimpleInterface_get_method_signature(self, method_name) ==
    IF Has(self.methods, method_name)
      THEN [NoOutcome EXCEPT !.sig = <<Get(self.methods, method_name)>>]
      ELSE Raise("KeyError")

\* def load(self, uri): pass
SimpleInterface_load(self, uri) == [exc |-> "none", self |-> self]

\* ------------------------------------------------------------------------
\* ModelInterface
\* ------------------------------------------------------------------------

\* cls(): the class attribute model is only annotated, never assigned
ModelInterface_init == Interface("model", <<>>, <<>>, <<>>)

\* from_model(cls, model): interface = cls(); interface.model = model.model
ModelInterface_from_model(model) ==
    [ModelInterface_init EXCEPT !.model = <<model>>]

ModelInterface_load(self, uri) ==
    LET meta == load_meta(uri) IN
    IF meta.exc # "none" THEN [exc |-> meta.exc, self |-> self]
    ELSE IF meta.class # "ModelMeta"
      THEN [exc |-> "ValueError", self |-> self]
    ELSE IF ~meta.artifacts
      \* self.model = meta.model has run, self.model.load(...) raised
      THEN [exc |-> "OSError", self |-> [self EXCEPT !.model = <<meta.model>>]]
    ELSE [exc |-> "none",
          self |-> [self EXCEPT
                      !.model = <<[meta.model EXCEPT !.loaded = TRUE]>>]]

\* return self.model.methods[method_name]
ModelInterface_get_method_signature(self, method_name) ==
    IF self.model = <<>> THEN Raise("AttributeError")
    ELSE IF Has(self.model[1].methods, method_name)
      THEN [NoOutcome EXCEPT !.sig = <<Get(self.model[1].methods, method_name)>>]
      ELSE Raise("KeyError")

\* signature = self.get_method_signature(method_name); return executor
ModelInterface_get_method_executor(self, method_name) ==
    LET signature == ModelInterface_get_method_signature(self, method_name) IN
    IF signature.exc # "none" THEN signature
    ELSE [NoOutcome EXCEPT !.callable = method_name]

\* return list(self.model.methods.keys())
ModelInterface_get_method_names(self) ==
    IF self.model = <<>> THEN Raise("AttributeError")
    ELSE [NoOutcome EXCEPT !.names = Keys(self.model[1].methods)]

\* ------------------------------------------------------------------------
\* Interface: dispatch on the variant, validation, execution, descriptor
\* ------------------------------------------------------------------------

get_method_signature(self, method_name) ==
    IF self.type = "simple"
      THEN SimpleInterface_get_method_signature(self, method_name)
      ELSE ModelInterface_get_method_signature(self, method_name)

get_method_names(self) ==
    IF self.type = "simple"
      THEN SimpleInterface_get_method_names(self)
      ELSE ModelInterface_get_method_names(self)

get_method_executor(self, method_name) ==
    IF self.type = "simple"
      THEN SimpleInterface_get_method_executor(self, method_name)
      ELSE ModelInterface_get_method_executor(self, method_name)

load(self, uri) ==
    IF self.type = "simple"
      THEN SimpleInterface_load(self, uri)
      ELSE ModelInterface_load(self, uri)

\* {a.key: a.type for a in signature.args}: the keys, in dict order.
\* Interface.get_method_args goes through get_method_signature,
\* ModelInterface.get_method_args reads self.model.methods[method_name];
\* both fail and succeed alike.
get_method_args(self, method_name) ==
    LET signature == get_method_signature(self, method_name) IN
    IF signature.exc # "none" THEN signature
    ELSE [NoOutcome EXCEPT
            !.names = [i \in 1..Len(signature.sig[1].args) |->
                          signature.sig[1].args[i].key]]

\* variant: the filter keeps the arguments that are present
_validate_args_inverted(self, method, args) ==
    LET needed_args == get_method_args(self, method) IN
    IF needed_args.exc # "none" THEN needed_args
    ELSE LET missing_args ==
               SelectSeq(needed_args.names, LAMBDA arg : arg \in DOMAIN args)
         IN IF missing_args # <<>>
              THEN ExecutionError(method, missing_args)
              ELSE NoOutcome

_validate_args(self, method, args) ==
    LET needed_args == get_method_args(self, method) IN
    IF needed_args.exc # "none" THEN needed_args
    ELSE LET missing_args ==
               SelectSeq(needed_args.names, LAMBDA arg : arg \notin DOMAIN args)
         IN IF missing_args # <<>>
              THEN ExecutionError(method, missing_args)
              ELSE NoOutcome

\* what the host callable does once it has been entered with the positional
\* arguments bound: it raises, or returns a value determined by the method
\* and the arguments
Invoke(method_name, bound, hostRaises) ==
    IF hostRaises
      THEN [NoOutcome EXCEPT !.exc = HostException, !.invoked = 1,
                             !.bound = bound]
      ELSE [NoOutcome EXCEPT !.invoked = 1, !.bound = bound,
                             !.value = <<[fn |-> method_name, args |-> bound]>>]

\* getattr(self, method)(**args): Python binds the keywords to the
\* parameters after the receiver; an unexpected or a missing keyword is a
\* TypeError raised before the body runs
SimpleInterface_call(self, method_name, kwargs, hostRaises) ==
    LET params == Tail(GetAttr(self.cls, method_name).args) IN
    IF \/ \E k \in DOMAIN kwargs : k \notin Range(params)
       \/ \E i \in 1..Len(params) : params[i] \notin DOMAIN kwargs
      THEN Raise("TypeError")
      ELSE Invoke(method_name, [i \in 1..Len(params) |-> kwargs[params[i]]],
                  hostRaises)

\* executor(**kwargs): args = [kwargs[arg.key] for arg in signature.args];
\* return self.model.call_method(method_name, *args)
ModelInterface_executor(self, method_name, kwargs, hostRaises) ==
    LET signature == Get(self.model[1].methods, method_name) IN
    IF \E i \in 1..Len(signature.args) : signature.args[i].key \notin DOMAIN kwargs
      THEN Raise("KeyError")
      ELSE Invoke(method_name,
                  [i \in 1..Len(signature.args) |-> kwargs[signature.args[i].key]],
                  hostRaises)

\* variant: a failure of the callable is caught and the call made again
execute_retry(self, method, args, hostRaises) ==
    LET validated == _validate_args(self, method, args) IN
    IF validated.exc # "none" THEN validated
    ELSE LET executor == get_method_executor(self, method) IN
         IF executor.exc # "none" THEN executor
         ELSE LET first == IF self.type = "simple"
                             THEN SimpleInterface_call(self, method, args, hostRaises)
                             ELSE ModelInterface_executor(self, method, args, hostRaises)
              IN IF first.exc = HostException
                   THEN [first EXCEPT !.invoked = 2]
                   ELSE first

\* self._validate_args(method, args)
\* return self.get_method_executor(method)(**args)
execute(self, method, args, hostRaises) ==
    LET validated == _validate_args(self, method, args) IN
    IF validated.exc # "none" THEN validated
    ELSE LET executor == get_method_executor(self, method) IN
         IF executor.exc # "none" THEN executor
         ELSE IF self.type = "simple"
           THEN SimpleInterface_call(self, method, args, hostRaises)
           ELSE ModelInterface_executor(self, method, args, hostRaises)

\* variant: the mapping is keyed by the Signature's own name
get_descriptor_by_signature_name(self) ==
    LET names == get_method_names(self) IN
    IF names.exc # "none" THEN names
    ELSE [NoOutcome EXCEPT
            !.desc = <<InterfaceDescriptor(Version,
                        [i \in 1..Len(names.names) |->
                           [key |-> get_method_signature(self, names.names[i]).sig[1].name,
                            val |-> get_method_signature(self, names.names[i]).sig[1]]])>>]

\* InterfaceDescriptor(version=mlem.__version__,
\*   methods={name: self.get_method_signature(name)
\*            for name in self.get_method_names()})
get_descriptor(self) ==
    LET names == get_method_names(self) IN
    IF names.exc # "none" THEN names
    ELSE [NoOutcome EXCEPT
            !.desc = <<InterfaceDescriptor(Version,
                        [i \in 1..Len(names.names) |->
                           [key |-> names.names[i],
                            val |-> get_method_signature(self, names.names[i]).sig[1]]])>>]

\* ------------------------------------------------------------------------
\* State
\* ------------------------------------------------------------------------

\* number of get_descriptor / get_method_names outcomes remembered
MaxQueries == 2

VARIABLES
    type,          \* ClassVar type: "simple" or "model"
    cls,           \* the attributes of the declared class (SimpleInterface)
    methods,       \* SimpleInterface.methods.methods
    model,         \* ModelInterface.model, absent until bound
    result,        \* the last operation, its inputs and its outcome
    loadedHandle,  \* history: the handle bound by the last from_model or
                   \* load that completed
    descriptors,   \* history: the last get_descriptor outcomes since a load
    namesSeen      \* history: the last get_method_names outcomes since a load

vars == <<type, cls, methods, model, result, loadedHandle, descriptors, namesSeen>>

Self == Interface(type, cls, methods, model)

NoArgs == [k \in {} |-> 1]

Call(op, method, args, uri, hostRaises, out) ==
    [op |-> op, method |-> method, args |-> args, uri |-> uri,
     hostRaises |-> hostRaises, out |-> out]

Remember(history, out) ==
    IF Len(history) < MaxQueries THEN Append(history, out)
    ELSE Append(Tail(history), out)

\* handles a caller passes to from_model: already loaded in memory
MemoryModels == {ModelType(MethodsA, TRUE), ModelType(MethodsB, TRUE)}

InitSelf(self) ==
    /\ type = self.type
    /\ cls = self.cls
    /\ methods = self.methods
    /\ model = self.model
    /\ loadedHandle = self.model
    /\ result = Call("init", "", NoArgs, "", FALSE, NoOutcome)
    /\ descriptors = <<>>
    /\ namesSeen = <<>>

Init ==
    \/ \E c \in Classes :
          /\ SimpleInterface_init(c).exc = "none"
          /\ InitSelf(SimpleInterface_init(c).self)
    \/ InitSelf(ModelInterface_init)
    \/ \E m \in MemoryModels : InitSelf(ModelInterface_from_model(m))

\* ------------------------------------------------------------------------
\* Operations
\* ------------------------------------------------------------------------

\* the host callable may raise whenever it is entered
Execute ==
    \E method \in MethodNames, args \in ArgMaps, hostRaises \in BOOLEAN :
        /\ hostRaises => execute(Self, method, args, FALSE).invoked > 0
        /\ result' = Call("execute", method, args, "", hostRaises,
                          execute(Self, method, args, hostRaises))
        /\ UNCHANGED <<type, cls, methods, model, loadedHandle, descriptors,
                       namesSeen>>

Load ==
    \E uri \in Uris :
        LET loading == load(Self, uri) IN
        /\ model' = loading.self.model
        /\ result' = Call("load", "", NoArgs, uri, FALSE, Raise(loading.exc))
        /\ loadedHandle' = IF type = "model" /\ loading.exc = "none"
                             THEN loading.self.model
                             ELSE loadedHandle
        /\ descriptors' = <<>>
        /\ namesSeen' = <<>>
        /\ UNCHANGED <<type, cls, methods>>

\* variant: enumerating the names consumes the last entry of the table
GetMethodNames_consuming ==
    /\ result' = Call("get_method_names", "", NoArgs, "", FALSE,
                      get_method_names(Self))
    /\ namesSeen' = Remember(namesSeen, get_method_names(Self))
    /\ methods' = SubSeq(methods, 1, Len(methods) - 1)
    /\ model' = IF model = <<>> THEN model
                ELSE <<[model[1] EXCEPT
                          !.methods = SubSeq(@, 1, Len(@) - 1)]>>
    /\ UNCHANGED <<type, cls, loadedHandle, descriptors>>

GetMethodNames ==
    /\ result' = Call("get_method_names", "", NoArgs, "", FALSE,
                      get_method_names(Self))
    /\ namesSeen' = Remember(namesSeen, get_method_names(Self))
    /\ UNCHANGED <<type, cls, methods, model, loadedHandle, descriptors>>

GetMethodSignature ==
    \E method_name \in MethodNames :
        /\ result' = Call("get_method_signature", method_name, NoArgs, "",
                          FALSE, get_method_signature(Self, method_name))
        /\ UNCHANGED <<type, cls, methods, model, loadedHandle, descriptors,
                       namesSeen>>

GetMethodExecutor ==
    \E method_name \in MethodNames :
        /\ result' = Call("get_method_executor", method_name, NoArgs, "",
                          FALSE, get_method_executor(Self, method_name))
        /\ UNCHANGED <<type, cls, methods, model, loadedHandle, descriptors,
                       namesSeen>>

GetDescriptor ==
    /\ result' = Call("get_descriptor", "", NoArgs, "", FALSE,
                      get_descriptor(Self))
    /\ descriptors' = Remember(descriptors, get_descriptor(Self))
    /\ UNCHANGED <<type, cls, methods, model, loadedHandle, namesSeen>>

Next ==
    \/ Execute
    \/ Load
    \/ GetMethodNames
    \/ GetMethodSignature
    \/ GetMethodExecutor
    \/ GetDescriptor

Spec == Init /\ [][Next]_vars

\* ------------------------------------------------------------------------
\* Vocabulary of the claims
\* ------------------------------------------------------------------------

\* the interface has a method table: always for a declared interface, once
\* a model is bound for a derived one
HasTable == type = "simple" \/ model # <<>>

Table ==
    IF type = "simple" THEN methods
    ELSE IF model # <<>> THEN model[1].methods ELSE <<>>

\* the declared argument keys of a method of the table, in declaration order
Declared(method) ==
    [i \in 1..Len(Get(Table, method).args) |-> Get(Table, method).args[i].key]

Restrict(args, keys) == [k \in (DOMAIN args) \cap keys |-> args[k]]

\* s lists some elements of t, each once, in the order they have in t
OrderedWithin(s, t) ==
    /\ Cardinality(Range(s)) = Len(s)
    /\ \A i, j \in 1..Len(s) :
          i < j => \E p, q \in 1..Len(t) : p < q /\ t[p] = s[i] /\ t[q] = s[j]

\* the failure of _validate_args on absent arguments: the code raises it as
\* ExecutionError, with the method and the missing keys in its message
IsMissingArguments(out) == out.exc = "ExecutionError"

\* the failure of the method-table lookup: a KeyError
IsUnknownMethod(out) == out.exc = "KeyError"

\* the failure of reading the model of an interface none was bound to: an
\* AttributeError
IsNotLoaded(out) == out.exc = "AttributeError"

\* ------------------------------------------------------------------------
\* C1
\* ------------------------------------------------------------------------

\* C1: execute of a method of the table with at least one declared argument
\* absent from args fails with the missing-arguments error, which lists
\* exactly the declared keys that args lacks, in declaration order, and the
\* underlying callable is not invoked.
C1_MissingArgumentsRejected ==
    ( /\ result.op = "execute"
      /\ HasTable
      /\ Has(Table, result.method)
      /\ Range(Declared(result.method)) \ (DOMAIN result.args) # {} )
    => /\ IsMissingArguments(result.out)
       /\ result.out.error_method = result.method
       /\ Range(result.out.missing)
            = Range(Declared(result.method)) \ (DOMAIN result.args)
       /\ OrderedWithin(result.out.missing, Declared(result.method))
       /\ result.out.invoked = 0
       /\ result.out.value = <<>>

\* a derived interface whose method declares two arguments was executed
\* with one of them and an undeclared key; a declared interface likewise
C1_Witness ==
    /\ result.op = "execute"
    /\ HasTable
    /\ Has(Table, result.method)
    /\ Len(Declared(result.method)) = 2
    /\ DOMAIN result.args = {"arg1", "extra"}
    /\ result.out.missing = <<"b">>

\* ------------------------------------------------------------------------
\* C2
\* ------------------------------------------------------------------------

\* C2: execute of a method of the table with every declared key present and
\* any undeclared extra keys has the outcome of execute with args restricted
\* to the declared keys: same result, same values bound, no error from the
\* extra keys.
C2_ExtraArgumentsTolerated ==
    ( /\ result.op = "execute"
      /\ HasTable
      /\ Has(Table, result.method)
      /\ Range(Declared(result.method)) \subseteq DOMAIN result.args )
    => result.out = execute(Self, result.method,
                            Restrict(result.args, Range(Declared(result.method))),
                            result.hostRaises)

\* ------------------------------------------------------------------------
\* C3
\* ------------------------------------------------------------------------

\* C3 as stated: in any state of any interface, execute of a name that is
\* not in the method table fails with the unknown-method error before any
\* callable is invoked and leaves the method table unchanged.
C3_UnknownMethodAnyState ==
    [][ ( /\ result'.op = "execute"
          /\ ~Has(Table, result'.method) )
        => /\ IsUnknownMethod(result'.out)
           /\ result'.out.invoked = 0
           /\ Table' = Table ]_vars

\* C3 amended: execute of a name that is not in the method table fails
\* before any callable is invoked and leaves the interface unchanged; the
\* failure is the unknown-method error when the interface has a method
\* table, and the not-loaded error on a derived interface no model is
\* bound to.
C3_UnknownMethod ==
    [][ ( /\ result'.op = "execute"
          /\ ~Has(Table, result'.method) )
        => /\ IF HasTable THEN IsUnknownMethod(result'.out)
                          ELSE IsNotLoaded(result'.out)
           /\ result'.out.invoked = 0
           /\ result'.out.value = <<>>
           /\ Table' = Table
           /\ model' = model ]_vars

\* a declared interface was asked to execute its unexposed helper
C3_Witness ==
    /\ result.op = "execute"
    /\ type = "simple"
    /\ result.method = "method2"
    /\ HasAttr(cls, "method2")
    /\ IsUnknownMethod(result.out)

\* ------------------------------------------------------------------------
\* C4
\* ------------------------------------------------------------------------

\* C4: get_method_executor of a name that is not a key of the method table
\* fails (the name lookup raises) and returns no callable.
C4_ExecutorOnlyForTableMethods ==
    ( /\ result.op = "get_method_executor"
      /\ HasTable
      /\ ~Has(Table, result.method) )
    => /\ result.out.exc \in {"KeyError", "AttributeError"}
       /\ result.out.callable = ""

\* ------------------------------------------------------------------------
\* C5
\* ------------------------------------------------------------------------

\* C5: on a derived interface, get_method_names fails with the not-loaded
\* error while no load and no from_model binding has completed, and after
\* one has completed it returns the method names of the handle that load
\* bound, in the handle's order.
C5_LoadBeforeQuery ==
    ( /\ result.op = "get_method_names"
      /\ type = "model" )
    => IF loadedHandle = <<>>
         THEN IsNotLoaded(result.out)
         ELSE /\ result.out.exc = "none"
              /\ result.out.names = Keys(loadedHandle[1].methods)

\* ------------------------------------------------------------------------
\* C6
\* ------------------------------------------------------------------------

\* C6 as stated: a descriptor has the build version, its keys are exactly
\* the names get_method_names returns, and the Signature under each key k
\* has name k.
C6_DescriptorNamesMatchKeys ==
    ( /\ result.op = "get_descriptor"
      /\ result.out.exc = "none" )
    => LET d == result.out.desc[1] IN
       /\ d.version = Version
       /\ KeySet(d.methods) = Range(get_method_names(Self).names)
       /\ Len(d.methods) = Cardinality(KeySet(d.methods))
       /\ \A i \in 1..Len(d.methods) : d.methods[i].val.name = d.methods[i].key

\* C6 amended: a descriptor has the build version and its keys are exactly
\* the names get_method_names returns; on a declared interface the
\* Signature under each key k has name k, on a derived interface it is the
\* Signature the model handle declares under k, whatever its name.
C6_Descriptor ==
    ( /\ result.op = "get_descriptor"
      /\ result.out.exc = "none" )
    => LET d == result.out.desc[1] IN
       /\ d.version = Version
       /\ KeySet(d.methods) = Range(get_method_names(Self).names)
       /\ Len(d.methods) = Cardinality(KeySet(d.methods))
       /\ \A i \in 1..Len(d.methods) :
             IF type = "simple"
               THEN d.methods[i].val.name = d.methods[i].key
               ELSE d.methods[i].val = Get(model[1].methods, d.methods[i].key)

\* the descriptor of a derived interface bound to the three-method handle
C6_Witness ==
    /\ result.op = "get_descriptor"
    /\ result.out.exc = "none"
    /\ type = "model"
    /\ Len(result.out.desc[1].methods) = 3

\* ------------------------------------------------------------------------
\* C7
\* ------------------------------------------------------------------------

\* C7: the method table of a declared interface holds exactly the
\* attributes marked exposed; each Signature carries the method's name and
\* its declared parameters in declaration order without the receiver, each
\* with its declared type; a method without parameters has an empty
\* argument sequence and a method without declared return type an absent
\* returns.
C7_DeclaredTable ==
    type = "simple" =>
      /\ KeySet(methods) = {cls[i].name : i \in {j \in 1..Len(cls) : cls[j].is_exposed}}
      /\ Len(methods) = Cardinality(KeySet(methods))
      /\ \A i \in 1..Len(cls) :
            cls[i].is_exposed =>
              LET attr == cls[i]
                  sig == Get(methods, attr.name)
              IN /\ sig.name = attr.name
                 /\ Len(sig.args) = Len(attr.args) - 1
                 /\ \A j \in 1..Len(sig.args) :
                       /\ sig.args[j].key = attr.args[j + 1]
                       /\ sig.args[j].key # attr.args[1]
                       /\ sig.args[j].type = attr.annotations[sig.args[j].key]
                 /\ (Len(attr.args) = 1 => sig.args = <<>>)
                 /\ IF "return" \in DOMAIN attr.annotations
                      THEN sig.returns = <<attr.annotations["return"]>>
                      ELSE sig.returns = <<>>

\* a declared interface with an unexposed helper, an exposed method of two
\* parameters and an exposed method without parameters and return type
C7_Witness ==
    /\ type = "simple"
    /\ HasAttr(cls, "method2")
    /\ ~Has(methods, "method2")
    /\ Has(methods, "predict")
    /\ Len(Get(methods, "predict").args) = 2
    /\ Has(methods, "info")
    /\ Get(methods, "info").args = <<>>
    /\ Get(methods, "info").returns = <<>>

\* ------------------------------------------------------------------------
\* C8
\* ------------------------------------------------------------------------

C9_QueriesArePure ==
    [][ /\ result'.op \in {"get_descriptor", "get_method_names",
                           "get_method_signature", "execute"}
           => UNCHANGED <<type, cls, methods, model>>
        /\ \A i, j \in 1..Len(descriptors') : descriptors'[i] = descriptors'[j]
        /\ \A i, j \in 1..Len(namesSeen') : namesSeen'[i] = namesSeen'[j]
      ]_vars

\* two descriptors and two name lists were taken, and a callable invoked,
\* since the last load
C9_Witness ==
    /\ Len(descriptors) >= 2
    /\ Len(namesSeen) >= 2
    /\ descriptors[1].exc = "none"
    /\ Len(descriptors[1].desc[1].methods) >= 2
    /\ result.op = "execute"
    /\ result.out.invoked = 1

\* ------------------------------------------------------------------------
\* C10
\* ------------------------------------------------------------------------

\* C10: a load on a derived interface that fails leaves the interface as it
\* was: unbound if it was unbound, bound to the same model otherwise.
C10_FailedLoadKeepsState ==
    [][ ( /\ type = "model"
          /\ result'.op = "load"
          /\ result'.out.exc # "none" )
        => model' = model ]_vars

====
